---- MODULE Spec2Model ----
(***************************************************************************)
(* Model of nixos-advisory-survey:                                         *)
(*   - src/main.rs: run(), issues(), create()  (the issue dispatcher and   *)
(*     the tracker selection), specification Spec;                         *)
(*   - src/package.rs: Package (new, from_str, pname, version, Eq/Ord),    *)
(*     specification SpecPackage.                                          *)
(* Ticket names are the numbers 1..NTickets.  Strings are sequences of     *)
(* bytes (45 = '-', 49 = '1', 97 = 'a').                                   *)
(***************************************************************************)
EXTENDS Integers, Sequences, FiniteSets, TLC

\* ------------------------------------------------------------------ bounds
\* number of distinct ticket names
NTickets == 2
\* number of runs of the program over the same iteration directory
MaxRuns == 2
\* longest pname / version handed to Package::new
MaxLen == 2
\* longest string handed to from_str directly
MaxStr == 4
\* longest pname / version of the Package::new values that are compared
MaxCmp == 1

Tickets == 1..NTickets

Range(s) == {s[i] : i \in 1..Len(s)}

\* ticket_list yields one ticket per package base name: the lists are the
\* duplicate-free sequences of ticket names, in any order
TicketLists ==
  UNION {{s \in [1..k -> Tickets] : \A i, j \in 1..k : i # j => s[i] # s[j]} : k \in 0..NTickets}

VARIABLES
  disk,        \* the marker files present in the iteration directory (ticket names)
  issued,      \* issued[t]: number of issues the GitHub tracker has created for t
  lost,        \* lost[t]: how many of them were followed by a failed marker write
  nullCalled,  \* tickets for which the Null tracker's create_issue has returned Ok
  nullFiled,   \* tickets for which create() returned Ok after a Null create_issue
  runs,        \* number of runs of the program started so far
  pc,          \* position of the current run
  opt,         \* the command line of the current run (repo, github_token, no_run)
  tracker,     \* tracker variant selected by the current run
  surveyed,    \* which of branches.load / branches.scan the current run has started
  tickets,     \* ticket list of the current run
  st,          \* st[i]: state of the future create(tickets[i], ..)
  idx,         \* index of the handle issues() is awaiting
  called,      \* tickets for which create_issue has been called in the current run
  succeeded,   \* tickets for which create_issue has returned Ok in the current run
  result,      \* outcome of the current run
  disk0,       \* the marker files present when the current run started
  fails,       \* tickets for which the tracker's create_issue fails in the current run
  wfails,      \* tickets for which Ticket::write fails in the current run
  op           \* the last Package operation applied, with its inputs and results

histVars == <<disk, issued, lost, nullCalled, nullFiled, runs>>
vars == <<disk, issued, lost, nullCalled, nullFiled, runs, pc, opt, tracker, surveyed, tickets, st, idx,
          called, succeeded, result, disk0, fails, wfails, op>>

Opts == [repo : BOOLEAN, github_token : BOOLEAN, no_run : BOOLEAN]

\* ------------------------------------------------------- src/main.rs: run
\* the run has not touched the dispatcher's bookkeeping
Fresh(o) ==
  /\ opt' = o
  /\ tracker' = "none"
  /\ surveyed' = "none"
  /\ tickets' = <<>>
  /\ st' = <<>>
  /\ idx' = 0
  /\ called' = {}
  /\ succeeded' = {}
  /\ result' = "none"
  /\ disk0' = disk
  /\ fails' = {}
  /\ wfails' = {}

\* main(): the process starts; run() reads the command line (Opt::from_args)
StartRun ==
  /\ pc \in {"idle", "exited"}
  /\ runs < MaxRuns
  /\ runs' = runs + 1
  /\ pc' = "with_repo"
  /\ \E o \in Opts : Fresh(o)
  /\ UNCHANGED <<disk, issued, lost, nullCalled, nullFiled, op>>

\* Branches::with_repo(&opt.branches, &opt.nixpkgs)? : Ok, or its error ends run
WithRepo ==
  /\ pc = "with_repo"
  /\ \E ok \in BOOLEAN :
       IF ok THEN pc' = "select_tracker" /\ result' = result
             ELSE pc' = "exited" /\ result' = "err_branches"
  /\ UNCHANGED <<opt, tracker, surveyed, tickets, st, idx, called, succeeded, disk0, fails, wfails>>
  /\ UNCHANGED <<histVars, op>>

\* a mutant of SelectTracker: the (Some(_), None) arm is missing, so a
\* repository without a token falls through to the Null tracker
SelectTrackerNoBail ==
  /\ pc = "select_tracker"
  /\ IF opt.repo /\ opt.github_token
       THEN \E ghok \in BOOLEAN :
              IF ghok THEN tracker' = "GitHub" /\ pc' = "survey" /\ result' = result
                      ELSE tracker' = tracker /\ pc' = "exited" /\ result' = "err_github_new"
       ELSE tracker' = "Null" /\ pc' = "survey" /\ result' = result
  /\ UNCHANGED <<opt, surveyed, tickets, st, idx, called, succeeded, disk0, fails, wfails>>
  /\ UNCHANGED <<histVars, op>>

\* match (&opt.repo, &opt.github_token): GitHub::new(..)? / bail! / Null::new()
SelectTracker ==
  /\ pc = "select_tracker"
  /\ IF opt.repo /\ opt.github_token
       THEN \E ghok \in BOOLEAN :
              IF ghok THEN tracker' = "GitHub" /\ pc' = "survey" /\ result' = result
                      ELSE tracker' = tracker /\ pc' = "exited" /\ result' = "err_github_new"
       ELSE IF opt.repo /\ ~opt.github_token
              THEN tracker' = tracker /\ pc' = "exited" /\ result' = "err_config"
              ELSE tracker' = "Null" /\ pc' = "survey" /\ result' = result
  /\ UNCHANGED <<opt, surveyed, tickets, st, idx, called, succeeded, disk0, fails, wfails>>
  /\ UNCHANGED <<histVars, op>>

\* branches.load(&opt)? or branches.scan(&opt)?, then ticket_list(..) and the
\* first half of issues(): one future per ticket is built, none is polled yet.
\* fails / wfails fix how the tracker and the file system will answer.
Survey ==
  /\ pc = "survey"
  /\ surveyed' = IF opt.no_run THEN "load" ELSE "scan"
  /\ \E ok \in BOOLEAN :
       IF ok
         THEN \E tl \in TicketLists, f \in SUBSET Tickets, w \in SUBSET Tickets :
                /\ f \subseteq Range(tl)
                /\ w \subseteq Range(tl)
                /\ tickets' = tl
                /\ st' = [i \in 1..Len(tl) |-> "unpolled"]
                /\ idx' = 1
                /\ fails' = f
                /\ wfails' = w
                /\ pc' = "await"
                /\ result' = result
         ELSE /\ pc' = "exited"
              /\ result' = "err_survey"
              /\ UNCHANGED <<tickets, st, idx, fails, wfails>>
  /\ UNCHANGED <<opt, tracker, called, succeeded, disk0>>
  /\ UNCHANGED <<histVars, op>>

\* ------------------------------------------- src/main.rs: issues, create
\* a mutant of Exists: the marker is looked up outside the iteration directory
ExistsWrongDir(t) == FALSE

\* f.exists(), f = iterdir.join(tkt.file_name())
Exists(t) == t \in disk

\* Null::create_issue: a no-op success
NullCreateIssue(t) == TRUE

\* GitHub::create_issue: the answer of the remote service
GitHubCreateIssue(t) == t \notin fails

\* tracker.create_issue(tkt).await through the dyn Tracker
CreateIssueOk(t) == IF tracker = "Null" THEN NullCreateIssue(t) ELSE GitHubCreateIssue(t)

\* tkt.write(&f): Ok or Err
TicketWrite(t) == t \notin wfails

\* `?` leaves issues(): future i ends as `how`, the handles behind it are
\* dropped without ever having been polled
Abort(i, how) == [j \in DOMAIN st |-> IF j = i THEN how ELSE IF j > i THEN "dropped" ELSE st[j]]

\* a mutant of CreatePoll: the warning is logged but `return Ok(())` is
\* missing, so create goes on to the tracker
CreatePollNoReturn ==
  /\ pc = "await"
  /\ idx <= Len(tickets)
  /\ LET t == tickets[idx] IN
       /\ st' = [st EXCEPT ![idx] = "inflight"]
       /\ idx' = idx
       /\ pc' = "inflight"
       /\ called' = called \cup {t}
  /\ UNCHANGED <<opt, tracker, surveyed, tickets, succeeded, result, disk0, fails, wfails>>
  /\ UNCHANGED <<histVars, op>>

\* hdl.await polls create(tickets[idx]) up to its first suspension: the
\* marker check, then either Ok(()) (skip) or the call of create_issue
CreatePoll ==
  /\ pc = "await"
  /\ idx <= Len(tickets)
  /\ LET t == tickets[idx] IN
       IF Exists(t)
         THEN /\ st' = [st EXCEPT ![idx] = "skipped"]
              /\ idx' = idx + 1
              /\ pc' = pc
              /\ called' = called
         ELSE /\ st' = [st EXCEPT ![idx] = "inflight"]
              /\ idx' = idx
              /\ pc' = "inflight"
              /\ called' = called \cup {t}
  /\ UNCHANGED <<opt, tracker, surveyed, tickets, succeeded, result, disk0, fails, wfails>>
  /\ UNCHANGED <<histVars, op>>

\* a mutant of CreateResume: the marker is written whatever create_issue returned
CreateResumeWriteAlways ==
  /\ pc = "inflight"
  /\ LET t == tickets[idx] IN
       IF CreateIssueOk(t)
         THEN /\ succeeded' = succeeded \cup {t}
              /\ issued' = IF tracker = "GitHub" THEN [issued EXCEPT ![t] = @ + 1] ELSE issued
              /\ nullCalled' = IF tracker = "Null" THEN nullCalled \cup {t} ELSE nullCalled
              /\ disk' = disk \cup {t}
              /\ nullFiled' = IF tracker = "Null" THEN nullFiled \cup {t} ELSE nullFiled
              /\ lost' = lost
              /\ st' = [st EXCEPT ![idx] = "filed"]
              /\ idx' = idx + 1
              /\ pc' = "await"
              /\ result' = result
         ELSE /\ st' = Abort(idx, "tracker_failed")
              /\ pc' = "exited"
              /\ result' = "err_tracker"
              /\ disk' = disk \cup {t}
              /\ UNCHANGED <<succeeded, issued, lost, nullCalled, nullFiled, idx>>
  /\ UNCHANGED <<opt, tracker, surveyed, tickets, called, disk0, fails, wfails, runs, op>>

\* a mutant of CreateResume: create looks at the tracker variant and writes no
\* marker after a dry-run (Null) success
CreateResumeDryNoMarker ==
  /\ pc = "inflight"
  /\ LET t == tickets[idx] IN
       IF CreateIssueOk(t)
         THEN /\ succeeded' = succeeded \cup {t}
              /\ issued' = IF tracker = "GitHub" THEN [issued EXCEPT ![t] = @ + 1] ELSE issued
              /\ nullCalled' = IF tracker = "Null" THEN nullCalled \cup {t} ELSE nullCalled
              /\ IF TicketWrite(t)
                   THEN /\ disk' = IF tracker = "Null" THEN disk ELSE disk \cup {t}
                        /\ nullFiled' = IF tracker = "Null" THEN nullFiled \cup {t} ELSE nullFiled
                        /\ lost' = lost
                        /\ st' = [st EXCEPT ![idx] = "filed"]
                        /\ idx' = idx + 1
                        /\ pc' = "await"
                        /\ result' = result
                   ELSE /\ \E left \in BOOLEAN : disk' = IF left THEN disk \cup {t} ELSE disk
                        /\ nullFiled' = nullFiled
                        /\ lost' = IF tracker = "GitHub" THEN [lost EXCEPT ![t] = @ + 1] ELSE lost
                        /\ st' = Abort(idx, "write_failed")
                        /\ idx' = idx
                        /\ pc' = "exited"
                        /\ result' = "err_write"
         ELSE /\ st' = Abort(idx, "tracker_failed")
              /\ pc' = "exited"
              /\ result' = "err_tracker"
              /\ UNCHANGED <<succeeded, issued, lost, nullCalled, nullFiled, disk, idx>>
  /\ UNCHANGED <<opt, tracker, surveyed, tickets, called, disk0, fails, wfails, runs, op>>

\* create() resumes when create_issue answers: .with_context(..)? returns the
\* error; on Ok, tkt.write(&f)? writes the marker (a failed write may or may not
\* leave a file behind) and create returns Ok(()); issues() then awaits the
\* next handle, or returns the error at once (hdl.await?)
CreateResume ==
  /\ pc = "inflight"
  /\ LET t == tickets[idx] IN
       IF CreateIssueOk(t)
         THEN /\ succeeded' = succeeded \cup {t}
              /\ issued' = IF tracker = "GitHub" THEN [issued EXCEPT ![t] = @ + 1] ELSE issued
              /\ nullCalled' = IF tracker = "Null" THEN nullCalled \cup {t} ELSE nullCalled
              /\ IF TicketWrite(t)
                   THEN /\ disk' = disk \cup {t}
                        /\ nullFiled' = IF tracker = "Null" THEN nullFiled \cup {t} ELSE nullFiled
                        /\ lost' = lost
                        /\ st' = [st EXCEPT ![idx] = "filed"]
                        /\ idx' = idx + 1
                        /\ pc' = "await"
                        /\ result' = result
                   ELSE /\ \E left \in BOOLEAN : disk' = IF left THEN disk \cup {t} ELSE disk
                        /\ nullFiled' = nullFiled
                        /\ lost' = IF tracker = "GitHub" THEN [lost EXCEPT ![t] = @ + 1] ELSE lost
                        /\ st' = Abort(idx, "write_failed")
                        /\ idx' = idx
                        /\ pc' = "exited"
                        /\ result' = "err_write"
         ELSE /\ st' = Abort(idx, "tracker_failed")
              /\ pc' = "exited"
              /\ result' = "err_tracker"
              /\ UNCHANGED <<succeeded, issued, lost, nullCalled, nullFiled, disk, idx>>
  /\ UNCHANGED <<opt, tracker, surveyed, tickets, called, disk0, fails, wfails, runs, op>>

\* every handle has been awaited: issues() returns Ok(()), and so does run()
IssuesDone ==
  /\ pc = "await"
  /\ idx > Len(tickets)
  /\ pc' = "exited"
  /\ result' = "ok"
  /\ UNCHANGED <<opt, tracker, surveyed, tickets, st, idx, called, succeeded, disk0, fails, wfails>>
  /\ UNCHANGED <<histVars, op>>

\* --------------------------------------------------------- src/package.rs
\* the bytes strings are made of: '-', '1', 'a'
Alphabet == {45, 49, 97}

Strs(n) == UNION {[1..k -> Alphabet] : k \in 0..n}

\* [0-9]
IsDigit(c) == c \in 48..57

\* a mutant of VERSION_SPLIT_find: the rightmost match instead of the leftmost
RECURSIVE FindBack(_, _)
FindBack(s, i) ==
  IF i < 0 THEN -1
  ELSE IF i + 2 <= Len(s) /\ s[i + 1] = 45 /\ IsDigit(s[i + 2]) THEN i
  ELSE FindBack(s, i - 1)

FindRightmost(s) == FindBack(s, Len(s) - 2)

\* the regex scan: try each start offset i = 0, 1, .. in turn
RECURSIVE FindFrom(_, _)
FindFrom(s, i) ==
  IF i + 2 > Len(s) THEN -1
  ELSE IF s[i + 1] = 45 /\ IsDigit(s[i + 2]) THEN i
  ELSE FindFrom(s, i + 1)

\* VERSION_SPLIT.find(s) for the regex -[0-9]: m.start() of the leftmost
\* match as a byte offset, -1 for None
VERSION_SPLIT_find(s) == FindFrom(s, 0)

\* a mutant of Package_new: v_idx is the offset of the hyphen, not of the version
Package_new_OffByOne(pn, v) == [name |-> pn \o <<45>> \o v, v_idx |-> Len(pn)]

\* Package::new(pname, version)
Package_new(pn, v) == [name |-> pn \o <<45>> \o v, v_idx |-> Len(pn) + 1]

\* Package::pname: &self.name[..self.v_idx - 1]
pname(p) == SubSeq(p.name, 1, p.v_idx - 1)

\* Package::version: &self.name[self.v_idx..]
version(p) == SubSeq(p.name, p.v_idx + 1, Len(p.name))

\* Display for Package / as_str
to_string(p) == p.name

\* #[derive(Default)]
Package_default == [name |-> <<>>, v_idx |-> 0]

NoErr == [kind |-> "none", name |-> <<>>]

\* FromStr for Package
from_str(s) ==
  LET m == VERSION_SPLIT_find(s) IN
    IF m # -1
      THEN [ok |-> TRUE, pkg |-> [name |-> s, v_idx |-> m + 1], err |-> NoErr]
      ELSE [ok |-> FALSE, pkg |-> Package_default, err |-> [kind |-> "Version", name |-> s]]

\* Ord for str: bytewise lexicographic, Less = -1, Equal = 0, Greater = 1
RECURSIVE StrCmp(_, _)
StrCmp(a, b) ==
  IF a = <<>> /\ b = <<>> THEN 0
  ELSE IF a = <<>> THEN -1
  ELSE IF b = <<>> THEN 1
  ELSE IF a[1] < b[1] THEN -1
  ELSE IF a[1] > b[1] THEN 1
  ELSE StrCmp(Tail(a), Tail(b))

\* #[derive(PartialEq, Eq)] on struct Package { name, v_idx }
PkgEq(p, q) == p.name = q.name /\ p.v_idx = q.v_idx

\* #[derive(PartialOrd, Ord)]: the fields in declaration order, name then v_idx
PkgCmp(p, q) ==
  LET c == StrCmp(p.name, q.name) IN
    IF c # 0 THEN c
    ELSE IF p.v_idx < q.v_idx THEN -1
    ELSE IF p.v_idx > q.v_idx THEN 1
    ELSE 0

\* the Package values that are compared with one another
PkgPool ==
  {Package_new(pn, v) : pn \in Strs(MaxCmp), v \in Strs(MaxLen)}
    \cup {from_str(s).pkg : s \in {x \in Strs(MaxStr) : from_str(x).ok}}

NoOp == [kind |-> "init", pname |-> <<>>, version |-> <<>>, input |-> <<>>,
         pkg |-> Package_default, res |-> [ok |-> FALSE, pkg |-> Package_default, err |-> NoErr],
         other |-> Package_default, eq |-> TRUE, ord |-> 0]

dispVars == <<disk, issued, lost, nullCalled, nullFiled, runs, pc, opt, tracker, surveyed, tickets, st, idx,
              called, succeeded, result, disk0, fails, wfails>>

\* Package::new(pn, v)
New ==
  /\ op.kind = "init"
  /\ \E pn \in Strs(MaxLen), v \in Strs(MaxLen) :
       op' = [NoOp EXCEPT !.kind = "new", !.pname = pn, !.version = v, !.pkg = Package_new(pn, v)]
  /\ UNCHANGED dispVars

\* s.parse::<Package>()
Parse ==
  /\ op.kind = "init"
  /\ \E s \in Strs(MaxStr) :
       op' = [NoOp EXCEPT !.kind = "parse", !.input = s, !.res = from_str(s)]
  /\ UNCHANGED dispVars

\* Package::new(pn, v).to_string().parse::<Package>()
RoundTrip ==
  /\ op.kind = "init"
  /\ \E pn \in Strs(MaxLen), v \in Strs(MaxLen) :
       LET p == Package_new(pn, v) IN
         op' = [NoOp EXCEPT !.kind = "roundtrip", !.pname = pn, !.version = v, !.pkg = p,
                            !.input = to_string(p), !.res = from_str(to_string(p))]
  /\ UNCHANGED dispVars

\* a == b and a.cmp(&b) for two Package values
Compare ==
  /\ op.kind = "init"
  /\ \E a \in PkgPool, b \in PkgPool :
       op' = [NoOp EXCEPT !.kind = "cmp", !.pkg = a, !.other = b, !.eq = PkgEq(a, b), !.ord = PkgCmp(a, b)]
  /\ UNCHANGED dispVars

\* the value is dropped; the next operation starts from scratch
Forget ==
  /\ op.kind # "init"
  /\ op' = NoOp
  /\ UNCHANGED dispVars

\* ---------------------------------------------------------- specifications
Init ==
  /\ disk = {}
  /\ issued = [t \in Tickets |-> 0]
  /\ lost = [t \in Tickets |-> 0]
  /\ nullCalled = {}
  /\ nullFiled = {}
  /\ runs = 0
  /\ pc = "idle"
  /\ opt = [repo |-> FALSE, github_token |-> FALSE, no_run |-> FALSE]
  /\ tracker = "none"
  /\ surveyed = "none"
  /\ tickets = <<>>
  /\ st = <<>>
  /\ idx = 0
  /\ called = {}
  /\ succeeded = {}
  /\ result = "none"
  /\ disk0 = disk
  /\ fails = {}
  /\ wfails = {}
  /\ op = NoOp

Next ==
  \/ StartRun
  \/ WithRepo
  \/ SelectTracker
  \/ Survey
  \/ CreatePoll
  \/ CreateResume
  \/ IssuesDone

Spec == Init /\ [][Next]_vars

NextPackage ==
  \/ New
  \/ Parse
  \/ RoundTrip
  \/ Compare
  \/ Forget

SpecPackage == Init /\ [][NextPackage]_vars

\* ------------------------------------------------------------- properties
\* the outcomes a future of issues() ends in by running: Ok(()) or Err
Completed == {"skipped", "filed", "tracker_failed", "write_failed"}

\* issues() keeps at most one create in flight: while handle i waits for the
\* tracker, every earlier handle has ended and no later one has been polled
OneAtATime ==
  \A i \in DOMAIN st :
    st[i] = "inflight" =>
      /\ \A j \in DOMAIN st : j < i => st[j] \in Completed
      /\ \A j \in DOMAIN st : j > i => st[j] = "unpolled"

\* C1: in a run over tickets a and b without markers, in either list order,
\* if create_issue fails for a and succeeds for b (and b's marker can be
\* written), then at the end of the run b's marker exists, a's does not, and
\* the run has returned an error.
C1_PartialFailure ==
  \A a \in Tickets, b \in Tickets :
    ( /\ pc = "exited"
      /\ a # b
      /\ a \in Range(tickets) /\ b \in Range(tickets)
      /\ a \notin disk0 /\ b \notin disk0
      /\ ~CreateIssueOk(a) /\ CreateIssueOk(b) /\ TicketWrite(b) )
    => (b \in disk /\ a \notin disk /\ result # "ok")

\* C2 as claimed: over any sequence of runs in which tracker calls and marker
\* writes may fail, the tracker creates at most one issue per ticket name.
C2_AtMostOnce == \A t \in Tickets : issued[t] <= 1

\* C2 as amended: the tracker creates at most one issue per ticket name more
\* than it has created issues whose marker write failed, and a ticket with a
\* created issue that was not lost this way has its marker.
C2_AtMostOncePerMarker ==
  \A t \in Tickets :
    /\ issued[t] <= 1 + lost[t]
    /\ issued[t] > lost[t] => t \in disk

\* a run with the GitHub tracker meets the marker of an issue it created in an
\* earlier run
C2_Witness ==
  /\ tracker = "GitHub"
  /\ \E i \in DOMAIN st : st[i] = "skipped" /\ issued[tickets[i]] = 1 /\ lost[tickets[i]] = 0

\* C3: when create processes a ticket whose marker file exists, that step
\* calls no create_issue, creates no issue, leaves the marker files as they
\* are, and returns Ok(()): issues goes on with the next handle, no error.
C3_SkipExisting ==
  [][ (pc = "await" /\ idx <= Len(tickets) /\ tickets[idx] \in disk)
        => /\ called' = called
           /\ succeeded' = succeeded
           /\ issued' = issued
           /\ disk' = disk
           /\ st'[idx] = "skipped"
           /\ pc' = "await" /\ idx' = idx + 1
           /\ result' = result ]_vars

\* a ticket whose marker was there before the run has been skipped
C3_Witness ==
  \E i \in DOMAIN st : st[i] = "skipped" /\ tickets[i] \in disk0 /\ tickets[i] \notin called

\* C4: a marker that was not there before the run exists only for a ticket
\* whose create_issue has returned Ok in this run; a ticket whose create_issue
\* failed has no marker.
C4_MarkerOnlyAfterSuccess ==
  /\ \A t \in Tickets : (t \in disk /\ t \notin disk0) => t \in succeeded
  /\ \A i \in DOMAIN st : st[i] = "tracker_failed" => tickets[i] \notin disk

\* one ticket was filed and got its marker, another one failed at the tracker
C4_Witness ==
  /\ \E t \in Tickets : t \in disk /\ t \notin disk0
  /\ \E i \in DOMAIN st : st[i] = "tracker_failed"

\* C5: every ticket's operation has completed or failed before issues returns.
C5_AllAwaited ==
  (pc = "exited" /\ result \in {"ok", "err_tracker", "err_write"})
    => \A i \in DOMAIN st : st[i] \in Completed

\* no hyphen immediately followed by a digit in s
NoBoundary(s) == ~ \E i \in 1..(Len(s) - 1) : s[i] = 45 /\ s[i + 1] \in 48..57

\* C6 as claimed: for every pname without a hyphen-digit and every version,
\* parsing the full name of Package::new(pname, version) succeeds and yields
\* the same pname and version, and a Package equal to the constructed one.
C6_RoundTripAnyVersion ==
  (op.kind = "roundtrip" /\ NoBoundary(op.pname))
    => /\ op.res.ok
       /\ pname(op.res.pkg) = op.pname
       /\ version(op.res.pkg) = op.version
       /\ PkgEq(op.res.pkg, op.pkg)

\* C6 as amended: the same for every version that begins with a digit.
C6_RoundTripDigitVersion ==
  (op.kind = "roundtrip" /\ NoBoundary(op.pname) /\ op.version # <<>> /\ op.version[1] \in 48..57)
    => /\ op.res.ok
       /\ pname(op.res.pkg) = op.pname
       /\ version(op.res.pkg) = op.version
       /\ PkgEq(op.res.pkg, op.pkg)

\* "a-" and "1-" round-trip through "a--1-"
C6_Witness ==
  /\ op.kind = "roundtrip"
  /\ op.pname = <<97, 45>>
  /\ op.version = <<49, 45>>
  /\ op.res.ok

\* C7: parsing s succeeds exactly when s holds a hyphen immediately followed
\* by a digit; then, with i the offset of the first such hyphen, pname is
\* s[0..i] and version is s[i+1..]; otherwise it fails with the Version error
\* that carries s.
C7_ParseSplitsAtFirstBoundary ==
  op.kind \in {"parse", "roundtrip"} =>
    LET s == op.input
        H == {i \in 0..(Len(s) - 2) : s[i + 1] = 45 /\ s[i + 2] \in 48..57}
    IN  IF H # {}
          THEN LET i == CHOOSE x \in H : \A y \in H : x <= y IN
                 /\ op.res.ok
                 /\ to_string(op.res.pkg) = s
                 /\ pname(op.res.pkg) = SubSeq(s, 1, i)
                 /\ version(op.res.pkg) = SubSeq(s, i + 2, Len(s))
          ELSE /\ ~op.res.ok
               /\ op.res.err = [kind |-> "Version", name |-> s]

\* "-1-1", a string with two boundaries, has been parsed and split at the first
C7_Witness ==
  /\ op.kind = "parse"
  /\ op.input = <<45, 49, 45, 49>>
  /\ op.res.ok
  /\ pname(op.res.pkg) = <<>>

\* C8: two Package values, from Package::new or from parsing, are equal exactly
\* when their full names are equal, and compare as their full names compare.
C8_EqOrdByName ==
  /\ op.kind = "cmp" =>
       /\ op.eq <=> (to_string(op.pkg) = to_string(op.other))
       /\ op.ord = StrCmp(to_string(op.pkg), to_string(op.other))
  /\ (op.kind = "roundtrip" /\ op.res.ok) =>
       /\ PkgEq(op.pkg, op.res.pkg) <=> (to_string(op.pkg) = to_string(op.res.pkg))
       /\ PkgCmp(op.pkg, op.res.pkg) = StrCmp(to_string(op.pkg), to_string(op.res.pkg))

\* C9 as claimed: with a repository and no token, run starts no load or scan,
\* calls no tracker, writes no marker, and ends with the configuration error;
\* without a repository the tracker selected is the Null tracker.
C9_ConfigErrorFirst ==
  /\ (pc # "idle" /\ opt.repo /\ ~opt.github_token) =>
       /\ surveyed = "none" /\ tracker = "none"
       /\ called = {} /\ disk = disk0
       /\ pc = "exited" => result = "err_config"
  /\ (pc # "idle" /\ ~opt.repo) =>
       /\ tracker \in {"none", "Null"}
       /\ pc \in {"survey", "await", "inflight"} => tracker = "Null"

\* C9 as amended: ... and ends with the configuration error, unless
\* Branches::with_repo, which runs first, has failed with its own error.
C9_ConfigErrorBeforeWork ==
  /\ (pc # "idle" /\ opt.repo /\ ~opt.github_token) =>
       /\ surveyed = "none" /\ tracker = "none"
       /\ called = {} /\ disk = disk0
       /\ pc \in {"with_repo", "select_tracker", "exited"}
       /\ pc = "exited" => result \in {"err_config", "err_branches"}
  /\ (pc # "idle" /\ ~opt.repo) =>
       /\ tracker \in {"none", "Null"}
       /\ pc \in {"survey", "await", "inflight"} => tracker = "Null"

\* a run with a repository and no token has ended with the configuration error
C9_Witness ==
  /\ pc = "exited"
  /\ opt.repo /\ ~opt.github_token
  /\ result = "err_config"

\* C10 as claimed: every ticket the Null tracker has answered has a marker, and
\* a run with the GitHub tracker calls create_issue for none of them.
C10_DryRunMarksAll ==
  /\ nullCalled \subseteq disk
  /\ tracker = "GitHub" => called \cap nullCalled = {}

\* C10 as amended: every ticket for which create returned Ok under the Null
\* tracker (every ticket of a dry run that ended Ok) has a marker, and a run
\* with the GitHub tracker calls create_issue for none of them.
C10_DryRunMarksFiled ==
  /\ nullFiled \subseteq disk
  /\ tracker = "GitHub" => called \cap nullFiled = {}
  /\ (tracker = "Null" /\ pc = "exited" /\ result = "ok") => Range(tickets) \subseteq disk
  /\ \A i \in DOMAIN st : st[i] = "filed" => tickets[i] \in disk

\* a run with the GitHub tracker has skipped a ticket that a dry run filed
C10_Witness ==
  /\ tracker = "GitHub"
  /\ \E i \in DOMAIN st : st[i] = "skipped" /\ tickets[i] \in nullFiled /\ issued[tickets[i]] = 0

====
